---- MODULE Spec2Model ----
(***************************************************************************)
(* Diagnostic-to-repair pipeline of the repository:                        *)
(*   - the Repair Loop Controller    (src/src/llm/repair.py)               *)
(*   - code extraction               (src/src/llm/llm.py)                  *)
(*   - source annotation             (src/src/llm/infer_report_processor)  *)
(*   - the Issue Normalizer/Enricher (src/src/static_analysis/             *)
(*                                    infer_processor.py)                  *)
(*   - the issue summarizers         (infer_report_processor.py,           *)
(*                                    src/src/llm/code_repair.py)          *)
(* Texts are sequences of one-character strings; a line of a source file   *)
(* is a sequence of string tokens.                                         *)
(***************************************************************************)
EXTENDS Integers, Sequences, FiniteSets, TLC

VARIABLES
    \* ---- repair_file / fix_cpp_syntax_with_llm (one file) ----
    pc,             \* position of the controller
    mode,           \* "default" | "no_llm" (NO_REQUEST_LLM=1) | "debug" (override file exists)
    content,        \* modified_content['content'], the pre-repair annotated text
    cpp_code,       \* the current candidate (parameter cpp_code)
    retry_times,    \* parameter retry_times of fix_cpp_syntax_with_llm
    is_fixed,       \* first component of the tuple fix_cpp_syntax_with_llm returns
    llm_log,        \* the responses request_llm returned, in call order
    oracle_log,     \* the check_cpp_syntax calls: [code, rc, err], in call order
    result,         \* what repair_file returned
    \* ---- analyzer report -> normalizer -> annotation -> prompt ----
    fs,                 \* the source files on disk: path -> sequence of lines
    report,             \* report.json: the raw diagnostics, in emission order
    stage,              \* "analyzed" | "normalized" (infer_processed.json is saved)
    processed_results,  \* InferOutputProcessor.processed_results (infer_processed.json)
    modified_files,     \* what process_infer_report returned: path -> record
    runs,               \* number of runs of process_infer_report so far
    prompt,             \* the sections of the last prompt repair_file built
    \* ---- one call of a function studied on its own ----
    call,           \* the function called and its arguments
    ret,            \* what the call returned (repair_files: what each repair_file returned)
    \* ---- repair_files: the loop over the files of the mapping ----
    pending,        \* the items of modified_files.items() not yet reached
    attempted,      \* the paths repair_file was called with, in call order
    fixed_files,    \* the paths of the dictionary repair_files returns
    outcome         \* "running" | "returned" | "raised"

repairVars == <<pc, mode, content, cpp_code, retry_times, is_fixed, llm_log, oracle_log, result>>

pipeVars == <<fs, report, stage, processed_results, modified_files, runs, prompt>>

callVars == <<call, ret>>

loopVars == <<pending, attempted, fixed_files, outcome>>

vars == <<repairVars, pipeVars, callVars, loopVars>>

-----------------------------------------------------------------------------
(* Texts *)

\* the backtick character (a string of the model cannot hold it)
BT == "bt"

WordChars == {"a", "b", "c", "o"}

Whitespace == {" ", "\n"}

\* str.strip(): drop leading and trailing whitespace
RECURSIVE lstrip(_)
lstrip(s) == IF s # <<>> /\ Head(s) \in Whitespace THEN lstrip(Tail(s)) ELSE s

RECURSIVE rstrip(_)
rstrip(s) ==
    IF s # <<>> /\ s[Len(s)] \in Whitespace THEN rstrip(SubSeq(s, 1, Len(s) - 1)) ELSE s

strip(s) == rstrip(lstrip(s))

SetMin(S) == CHOOSE x \in S : \A y \in S : x <= y

\* three backticks at position i
FenceAt(s, i) == i >= 1 /\ i + 2 <= Len(s) /\ s[i] = BT /\ s[i + 1] = BT /\ s[i + 2] = BT

\* end of the maximal run of \w characters starting at j (first index after the run)
RECURSIVE WordRunEnd(_, _)
WordRunEnd(s, j) == IF j <= Len(s) /\ s[j] \in WordChars THEN WordRunEnd(s, j + 1) ELSE j

\* opening (three backticks, optional \w+, newline) at i: index of its newline, 0 when it does not match
OpenNewline(s, i) ==
    IF ~FenceAt(s, i) THEN 0
    ELSE LET j == WordRunEnd(s, i + 3)
         IN  IF j <= Len(s) /\ s[j] = "\n" THEN j ELSE 0

\* closings (newline, three backticks) after the opening newline n (lazy .*? takes the first)
Closings(s, n) == {e \in (n + 1)..Len(s) : s[e] = "\n" /\ FenceAt(s, e + 1)}

MatchStarts(s) ==
    {i \in 1..Len(s) : OpenNewline(s, i) # 0 /\ Closings(s, OpenNewline(s, i)) # {}}

get_code_from_result(r) ==
    IF MatchStarts(r) # {}
    THEN LET i == SetMin(MatchStarts(r))
             n == OpenNewline(r, i)
             e == SetMin(Closings(r, n))
         IN  strip(SubSeq(r, n + 1, e - 1))
    ELSE strip(r)

Fence == <<BT, BT, BT>>

-----------------------------------------------------------------------------
(* Language model and syntax oracle boundaries *)

\* what request_llm can return (always stripped): nothing, bare code, a fenced
\* block with a language tag, a fenced block wrapping nothing, prose around a block
Responses ==
    { <<>>,
      <<"a">>,
      Fence \o <<"c", "\n", "b", "\n">> \o Fence,
      Fence \o <<"\n", "\n">> \o Fence,
      <<"o", " ">> \o Fence \o <<"\n", "a", " ", "b", "\n">> \o Fence }

\* what g++ -fsyntax-only can end with: exit status and diagnostic stream
CompilerRuns ==
    { [rc |-> 0, stderr |-> ""],
      [rc |-> 0, stderr |-> "warning"],
      [rc |-> 1, stderr |-> "error"],
      [rc |-> 1, stderr |-> ""] }

check_cpp_syntax(run) == IF run.rc = 0 THEN "" ELSE run.stderr

Contents == { <<"o", "\n">>, <<"a">> }

DebugContents == { <<"b">> }

max_retry_times == 3

NoneResult == [kind |-> "None", code |-> <<>>]

Pending == [kind |-> "pending", code |-> <<>>]

Returned(c) == [kind |-> "code", code |-> c]

-----------------------------------------------------------------------------
(* repair_file and fix_cpp_syntax_with_llm *)

ResponseMissing_never(r) == FALSE

\* repair.py:133  if not fixed_content
ResponseMissing(r) == r = <<>>

BudgetExhausted_offByOne(n) == n > max_retry_times

BudgetExhausted_late(n) == n >= max_retry_times + 1

\* repair.py:154  if retry_times >= max_retry_times
BudgetExhausted(n) == n >= max_retry_times

OracleRejects_always(error_msg) == TRUE

\* repair.py:158  if error_msg
OracleRejects(error_msg) == error_msg # ""

RepairFileReturn_candidate(fixed, code, original) == IF code = <<>> THEN original ELSE code

\* repair.py:140-144
RepairFileReturn(fixed, code, original) ==
    IF ~fixed \/ code = <<>> THEN original ELSE code

RepairInit ==
    /\ pc = "BUILT"
    /\ mode \in {"default", "no_llm", "debug"}
    /\ content \in Contents
    /\ cpp_code = <<>>
    /\ retry_times = 0
    /\ is_fixed = FALSE
    /\ llm_log = <<>>
    /\ oracle_log = <<>>
    /\ result = Pending

\* repair.py:118-122  USE_DEBUG_MODE with an existing override file
DebugOverride ==
    /\ pc = "BUILT" /\ mode = "debug"
    /\ \E d \in DebugContents : result' = Returned(d)
    /\ pc' = "done"
    /\ UNCHANGED <<mode, content, cpp_code, retry_times, is_fixed, llm_log, oracle_log, pipeVars, callVars, loopVars>>

\* repair.py:124-126  NO_REQUEST_LLM
SkipRequest ==
    /\ pc = "BUILT" /\ mode = "no_llm"
    /\ result' = Returned(content)
    /\ pc' = "done"
    /\ UNCHANGED <<mode, content, cpp_code, retry_times, is_fixed, llm_log, oracle_log, pipeVars, callVars, loopVars>>

\* repair.py:131-139  BUILT -> REQUESTED -> (FAILED | VALIDATING)
RequestRepair ==
    /\ pc = "BUILT" /\ mode = "default"
    /\ \E r \in Responses :
          /\ llm_log' = Append(llm_log, r)
          /\ IF ResponseMissing(r)
             THEN /\ result' = NoneResult
                  /\ pc' = "done"
                  /\ UNCHANGED <<cpp_code, retry_times>>
             ELSE /\ cpp_code' = get_code_from_result(r)
                  /\ retry_times' = 0
                  /\ pc' = "VALIDATING"
                  /\ UNCHANGED result
    /\ UNCHANGED <<mode, content, is_fixed, oracle_log, pipeVars, callVars, loopVars>>

\* repair.py:154-158, 179-180  entry of fix_cpp_syntax_with_llm: budget check, then the oracle
Validate ==
    /\ pc = "VALIDATING"
    /\ IF BudgetExhausted(retry_times)
       THEN /\ is_fixed' = FALSE
            /\ pc' = "RETURN"
            /\ UNCHANGED oracle_log
       ELSE \E run \in CompilerRuns :
               LET error_msg == check_cpp_syntax(run)
               IN  /\ oracle_log' = Append(oracle_log,
                                       [code |-> cpp_code, rc |-> run.rc, err |-> error_msg])
                   /\ IF OracleRejects(error_msg)
                      THEN /\ pc' = "RETRY" /\ UNCHANGED is_fixed
                      ELSE /\ pc' = "RETURN" /\ is_fixed' = TRUE
    /\ UNCHANGED <<mode, content, cpp_code, retry_times, llm_log, result, pipeVars, callVars, loopVars>>

\* repair.py:159-178  syntax-only re-prompt and recursion with retry_times + 1
Reprompt ==
    /\ pc = "RETRY"
    /\ \E r \in Responses :
          LET fixed_code == get_code_from_result(r)
          IN  /\ llm_log' = Append(llm_log, r)
              /\ IF fixed_code = <<>>
                 THEN /\ is_fixed' = FALSE
                      /\ pc' = "RETURN"
                      /\ UNCHANGED <<cpp_code, retry_times>>
                 ELSE /\ cpp_code' = fixed_code
                      /\ retry_times' = retry_times + 1
                      /\ pc' = "VALIDATING"
                      /\ UNCHANGED is_fixed
    /\ UNCHANGED <<mode, content, oracle_log, result, pipeVars, callVars, loopVars>>

\* repair.py:139-144  back in repair_file
Finish ==
    /\ pc = "RETURN"
    /\ result' = Returned(RepairFileReturn(is_fixed, cpp_code, content))
    /\ pc' = "done"
    /\ UNCHANGED <<mode, content, cpp_code, retry_times, is_fixed, llm_log, oracle_log, pipeVars, callVars, loopVars>>

\* the pipeline variables while the controller of one file is studied
PipeIdle ==
    /\ fs = <<>> /\ report = <<>> /\ stage = "idle" /\ processed_results = <<>>
    /\ modified_files = <<>> /\ runs = 0 /\ prompt = <<>>

\* no call studied on its own
CallIdle == call = <<>> /\ ret = <<>>

\* no run of repair_files
LoopIdle == pending = <<>> /\ attempted = <<>> /\ fixed_files = {} /\ outcome = "idle"

Init == RepairInit /\ PipeIdle /\ CallIdle /\ LoopIdle

Next == DebugOverride \/ SkipRequest \/ RequestRepair \/ Validate \/ Reprompt \/ Finish

Spec == Init /\ [][Next]_vars

-----------------------------------------------------------------------------
(* Claims about the Repair Loop Controller, checked under Spec *)

Terminated == pc = "done" /\ mode = "default"

AllResponsesNonEmpty == \A i \in 1..Len(llm_log) : llm_log[i] # <<>>

AllCandidatesNonEmpty == \A i \in 1..Len(llm_log) : get_code_from_result(llm_log[i]) # <<>>

OracleAlwaysRejects == \A j \in 1..Len(oracle_log) : oracle_log[j].err # ""

\* C1 as stated: every response non-empty and every candidate rejected: the call ends
\* after exactly 3 oracle validations and returns the pre-repair content.
C1_AsStated ==
    (Terminated /\ AllResponsesNonEmpty /\ OracleAlwaysRejects)
        => (Len(oracle_log) = 3 /\ result = Returned(content))

\* C1 (amended): when the code extracted from every response is non-empty and the
\* oracle rejects every candidate, repair_file ends after exactly 3 oracle validations
\* and returns the pre-repair content, not the last candidate.
C1_RetryTermination ==
    (Terminated /\ AllCandidatesNonEmpty /\ OracleAlwaysRejects)
        => (Len(oracle_log) = 3 /\ result = Returned(content))

C1_Witness ==
    /\ Terminated /\ AllCandidatesNonEmpty /\ OracleAlwaysRejects
    /\ Len(oracle_log) = 3 /\ Len(llm_log) = 4
    /\ cpp_code # content /\ result = Returned(content)

\* C2: in default mode repair_file returns None, the pre-repair content, or a candidate
\* the oracle was invoked on and reported no error for.
C2_OnlyValidatedReturned ==
    Terminated =>
        \/ result = NoneResult
        \/ result = Returned(content)
        \/ /\ result.kind = "code"
           /\ \E j \in 1..Len(oracle_log) :
                 oracle_log[j].code = result.code /\ oracle_log[j].err = ""

C2_Witness ==
    /\ Terminated /\ result.kind = "code" /\ result.code # content
    /\ Len(oracle_log) = 3 /\ oracle_log[1].err # "" /\ oracle_log[2].err # ""
    /\ oracle_log[1].code # result.code

\* C3: an empty first response ends the call with None and no oracle invocation.
C3_EmptyFirstResponseFails ==
    (mode = "default" /\ Len(llm_log) >= 1 /\ llm_log[1] = <<>>)
        => (pc = "done" /\ result = NoneResult /\ result # Returned(content)
            /\ oracle_log = <<>> /\ Len(llm_log) = 1)

C3_Witness ==
    Terminated /\ llm_log = << <<>> >> /\ result = NoneResult /\ oracle_log = <<>>

FirstAccepted == Len(oracle_log) >= 1 /\ oracle_log[1].err = ""

AcceptedAfterOne ==
    /\ Len(llm_log) = 1 /\ Len(oracle_log) = 1 /\ is_fixed
    /\ result = Returned(get_code_from_result(llm_log[1]))

\* C4 as stated: the oracle accepting the first candidate ends the repair accepted, with
\* one model call, one oracle call, and the extracted code returned.
C4_AsStated == (Terminated /\ FirstAccepted) => AcceptedAfterOne

\* C4 (amended): the same, for a first candidate that is not the empty text.
C4_FirstAccepted ==
    (Terminated /\ FirstAccepted /\ oracle_log[1].code # <<>>) => AcceptedAfterOne

C4_Witness ==
    /\ Terminated /\ FirstAccepted /\ oracle_log[1].code # <<>> /\ AcceptedAfterOne
    /\ result.code # content /\ result.code # llm_log[1]

-----------------------------------------------------------------------------
(* Raw diagnostics (report.json) and source files *)

MaxDiags == 4

MaxRuns == 2

\* dict.get with a default: keys holds the keys the JSON object has
Has(e, k) == k \in e.keys

Get(e, k, default) == IF Has(e, k) THEN e[k] ELSE default

AllKeys == {"file", "line", "qualifier", "bug_type", "bug_type_hum", "bug_trace"}

Diag(f, l, q, bt, hum, tr) ==
    [keys |-> AllKeys, file |-> f, line |-> l, qualifier |-> q,
     bug_type |-> bt, bug_type_hum |-> hum, bug_trace |-> tr]

\* the same object without its "line" key
WithoutLine(d) == [d EXCEPT !.keys = AllKeys \ {"line"}, !.line = 0]

\* qualifiers and trace descriptions are sequences of word tokens
QNull == <<"pointer", BT, "p", BT, "originating from line", "2", "could be null">>

QLeak == <<"memory", "is not freed">>

StepCompared == [keys |-> {"description"}, description |-> <<"is", "compared to null">>, line |-> 0]

RawDiagnostics ==
    { Diag("a.cpp", 1, QNull, "NULL_DEREFERENCE", "Null Dereference", <<StepCompared>>),
      Diag("a.cpp", 1, QLeak, "MEMORY_LEAK", "Memory Leak", <<>>),
      Diag("a.cpp", 2, QLeak, "MEMORY_LEAK", "Memory Leak", <<>>),
      Diag("a.cpp", 0, QLeak, "MEMORY_LEAK", "Memory Leak", <<>>),
      WithoutLine(Diag("a.cpp", 0, QNull, "NULL_DEREFERENCE", "Null Dereference", <<>>)),
      Diag("", 1, QNull, "NULL_DEREFERENCE", "Null Dereference", <<>>),
      Diag("b.py", 1, QNull, "NULLPTR_DEREFERENCE", "Nullptr Dereference", <<>>) }

Reports == UNION {[1..n -> RawDiagnostics] : n \in 0..MaxDiags}

\* the files on disk before any run: a.cpp has three lines (the second ends in
\* blanks, the last has no newline), b.py has one
InitialFs ==
    [f \in {"a.cpp", "b.py"} |->
        IF f = "a.cpp"
        THEN << <<"x", ";", "\n">>, <<"y", " ", " ", "\n">>, <<"z">> >>
        ELSE << <<"w", "\n">> >>]

\* Path(file_path).suffix.lower() on the paths of the model
Suffix(path) == IF path = "a.cpp" THEN ".cpp" ELSE IF path = "b.py" THEN ".py" ELSE ""

\* infer_report_processor.py:17-41 (the extensions the model's paths use)
comment_map == [e \in {".py", ".cpp", ".h", ".sql"} |->
                   IF e = ".py" THEN "#" ELSE IF e = ".sql" THEN "--" ELSE "//"]

get_comment_syntax(path) ==
    IF Suffix(path) \in DOMAIN comment_map THEN comment_map[Suffix(path)] ELSE "//"

\* ''.join(lines)
RECURSIVE Join(_)
Join(lines) == IF lines = <<>> THEN <<>> ELSE Head(lines) \o Join(Tail(lines))

\* f.readlines(): split after every newline, keeping it
RECURSIVE ReadLinesFrom(_, _)
ReadLinesFrom(text, cur) ==
    IF text = <<>> THEN (IF cur = <<>> THEN <<>> ELSE <<cur>>)
    ELSE IF Head(text) = "\n"
         THEN <<Append(cur, "\n")>> \o ReadLinesFrom(Tail(text), <<>>)
         ELSE ReadLinesFrom(Tail(text), Append(cur, Head(text)))

ReadLines(text) == ReadLinesFrom(text, <<>>)

-----------------------------------------------------------------------------
(* Diagnostic Enricher: infer_processor.py *)

Identifiers == {"p", "q"}

Numerals == {"1", "2", "3", "5"}

NumVal(t) == IF t = "1" THEN 1 ELSE IF t = "2" THEN 2 ELSE IF t = "3" THEN 3 ELSE 5

\* re.findall of a backtick-quoted identifier, in order of appearance
RECURSIVE BacktickVars(_)
BacktickVars(d) ==
    IF Len(d) < 3 THEN <<>>
    ELSE IF d[1] = BT /\ d[2] \in Identifiers /\ d[3] = BT
         THEN <<d[2]>> \o BacktickVars(SubSeq(d, 4, Len(d)))
         ELSE BacktickVars(Tail(d))

\* re.findall of "variable X" / "pointer X" / "value of X"
RECURSIVE PhraseVars(_)
PhraseVars(d) ==
    IF Len(d) < 2 THEN <<>>
    ELSE IF d[1] \in {"variable", "pointer", "value of"} /\ d[2] \in Identifiers
         THEN <<d[2]>> \o PhraseVars(Tail(Tail(d)))
         ELSE PhraseVars(Tail(d))

RECURSIVE Dedup(_)
Dedup(v) ==
    IF v = <<>> THEN <<>>
    ELSE <<Head(v)>> \o Dedup(SelectSeq(Tail(v), LAMBDA x : x # Head(v)))

\* list(set(...)) of the matches (the qualifiers of the model name one identifier)
_extract_variables(description) ==
    IF BacktickVars(description) # <<>> THEN Dedup(BacktickVars(description))
    ELSE Dedup(PhraseVars(description))

\* the numeral after the first "originating from line", <<>> for None
RECURSIVE _extract_origin_line(_)
_extract_origin_line(d) ==
    IF Len(d) < 2 THEN <<>>
    ELSE IF d[1] = "originating from line" /\ d[2] \in Numerals THEN <<d[2]>>
         ELSE _extract_origin_line(Tail(d))

\* "null" in description.lower()
MentionsNull(d) ==
    \E i \in 1..Len(d) : d[i] \in {"null", "could be null", "compared to null", "nullptr"}

\* "compared to null" in step.get("description", "")
StepComparesToNull(step) ==
    LET desc == Get(step, "description", <<>>)
    IN  \E i \in 1..Len(desc) : desc[i] = "compared to null"

\* substring tests on bug_type.lower(), for the bug types of the model;
\* "nullptr_dereference" does not contain "null_dereference"
HasNullDereference(bug_type) == bug_type \in {"NULL_DEREFERENCE"}

HasMemoryLeak(bug_type) == bug_type \in {"MEMORY_LEAK"}

HasBufferOverrun(bug_type) == bug_type \in {"BUFFER_OVERRUN_L1"}

HasUninitializedValue(bug_type) == bug_type \in {"UNINITIALIZED_VALUE"}

HasUseAfterFree(bug_type) == bug_type \in {"USE_AFTER_FREE"}

\* infer_processor.py:636-640  any trace step of any raw result compares to null
has_if_check(raw_results) ==
    \E i \in 1..Len(raw_results) :
        \E k \in 1..Len(Get(raw_results[i], "bug_trace", <<>>)) :
            StepComparesToNull(Get(raw_results[i], "bug_trace", <<>>)[k])

MoveDereference(var_name) ==
    <<"Move the dereference inside the if (", var_name,
      " != nullptr) block instead of the else block">>

_generate_fix_suggestions(bug_type, description, variables, raw_results) ==
    LET var_name == IF variables # <<>> THEN variables[1] ELSE "the pointer"
        origin_line == _extract_origin_line(description)
        typed ==
            IF HasNullDereference(bug_type)
            THEN IF origin_line # <<>>
                 THEN << <<"Add a null check before dereferencing ", var_name>>,
                         <<"Replace nullptr with a valid memory allocation (e.g., ", var_name,
                           " = new char[1];)">>,
                         <<"Add a guard clause: if (", var_name,
                           " == nullptr) return; // or throw an exception">> >>
                      \o (IF has_if_check(raw_results)
                          THEN <<MoveDereference(var_name)>> ELSE <<>>)
                 ELSE << <<"Add null check before dereferencing ", var_name>>,
                         <<"Initialize ", var_name, " with a valid value">>,
                         <<"Use smart pointers to handle null cases automatically">> >>
            ELSE IF HasMemoryLeak(bug_type)
            THEN << <<"Free allocated memory when it's no longer needed">>,
                    <<"Use smart pointers or containers to manage memory automatically">>,
                    <<"Ensure all code paths properly free resources">> >>
            ELSE IF HasBufferOverrun(bug_type)
            THEN << <<"Add bounds checking before accessing the array">>,
                    <<"Use safer array access methods or container classes">>,
                    <<"Validate input sizes before using them for array access">> >>
            ELSE IF HasUninitializedValue(bug_type)
            THEN << <<"Initialize ", var_name, " before use">>,
                    <<"Provide default values for variables">>,
                    <<"Add validation to ensure variables have been initialized">> >>
            ELSE IF HasUseAfterFree(bug_type)
            THEN << <<"Set pointers to null after freeing">>,
                    <<"Use smart pointers to manage object lifetime">>,
                    <<"Restructure code to avoid accessing freed memory">> >>
            ELSE <<>>
    IN  typed \o
        (IF MentionsNull(description) /\ origin_line # <<>>
         THEN << <<"Consider using a sentinel value instead of null for ", var_name>>,
                 <<"Initialize ", var_name, " with a safe default value at line ",
                   origin_line[1]>> >>
         ELSE <<>>)

-----------------------------------------------------------------------------
(* Issue Normalizer: InferOutputProcessor.process_results *)

\* infer_processor.py:92-96  a diagnostic without a file or with line 0 is dropped
Malformed(issue) == Get(issue, "file", "") = "" \/ Get(issue, "line", 0) = 0

InsertFirst_last(suggestion, fix_suggestions) == Append(fix_suggestions, suggestion)

\* infer_processor.py:134  fix_suggestions.insert(0, ...)
InsertFirst(suggestion, fix_suggestions) == <<suggestion>> \o fix_suggestions

\* infer_processor.py:81-164  <<>> for None, <<issue>> otherwise
_process_single_issue(issue, raw_results) ==
    IF Malformed(issue) THEN <<>>
    ELSE LET bug_type == Get(issue, "bug_type", "UNKNOWN")
             qualifier == Get(issue, "qualifier", <<>>)
             involved_variables == _extract_variables(qualifier)
             raw_trace == Get(issue, "bug_trace", <<>>)
             generic == _generate_fix_suggestions(bug_type, qualifier,
                                                  involved_variables, raw_results)
             var_name == IF involved_variables # <<>>
                         THEN involved_variables[1] ELSE "the pointer"
             fix_suggestions ==
                 IF bug_type = "NULLPTR_DEREFERENCE"
                    /\ \E k \in 1..Len(raw_trace) : StepComparesToNull(raw_trace[k])
                 THEN InsertFirst(MoveDereference(var_name), generic)
                 ELSE generic
         IN  << [issue_type |-> bug_type,
                 location |-> [file |-> Get(issue, "file", ""), line |-> Get(issue, "line", 0)],
                 description |-> qualifier,
                 context |-> [variables |-> involved_variables],
                 analysis |-> [fix_suggestions |-> fix_suggestions]] >>

RECURSIVE ProcessFrom(_, _)
ProcessFrom(rest, raw_results) ==
    IF rest = <<>> THEN <<>>
    ELSE _process_single_issue(Head(rest), raw_results) \o ProcessFrom(Tail(rest), raw_results)

\* the loop ends at the first malformed diagnostic
RECURSIVE ProcessUntilMalformed(_, _)
ProcessUntilMalformed(rest, raw_results) ==
    IF rest = <<>> \/ _process_single_issue(Head(rest), raw_results) = <<>> THEN <<>>
    ELSE _process_single_issue(Head(rest), raw_results)
         \o ProcessUntilMalformed(Tail(rest), raw_results)

process_results_stopping(raw_results) == ProcessUntilMalformed(raw_results, raw_results)

\* infer_processor.py:65-79
process_results(raw_results) == ProcessFrom(raw_results, raw_results)

-----------------------------------------------------------------------------
(* Issue summarizers *)

\* the summary entry both summarizers build; the Issue's context record has the keys
\* code and variables only (infer_processor.py:148-151), so before / target_line /
\* after take their defaults here
SummaryEntry(issue) ==
    [location |-> issue.location,
     description |-> issue.description,
     issue_type |-> issue.issue_type,
     code_snippet |-> <<">>> ", "">>,
     suggestions |-> issue.analysis.fix_suggestions]

RECURSIVE SummarizeAll(_)
SummarizeAll(issues) ==
    IF issues = <<>> THEN <<>> ELSE <<SummaryEntry(Head(issues))>> \o SummarizeAll(Tail(issues))

\* infer_report_processor.py:167-186  InferProcessManager.summarize_issues
summarize_issues(infer_processed, target_path) ==
    SummarizeAll(SelectSeq(infer_processed, LAMBDA i : i.location.file = target_path))

max_issues == 3

\* code_repair.py:41-57  CodeRepairPrompt._summarize_issues (issues[:max_issues])
_summarize_issues(issues) ==
    SummarizeAll(SubSeq(issues, 1, IF Len(issues) < max_issues THEN Len(issues) ELSE max_issues))

-----------------------------------------------------------------------------
(* Source annotation: process_infer_report *)

\* infer_report_processor.py:62-66  the files of the report's entries
FileGroups(rep) ==
    {rep[i].file : i \in {k \in 1..Len(rep) : Has(rep[k], "file") /\ rep[k].file # ""}}

EntriesOf(rep, f) == SelectSeq(rep, LAMBDA e : Has(e, "file") /\ e.file = f)

\* infer_report_processor.py:106-134  the entries loop. lint is lint_list; the
\* dictionary modified_lines holds, for each lint entry, line_num - 1 -> qualifier
RECURSIVE LintScan(_, _, _)
LintScan(entries, n, lint) ==
    IF entries = <<>> THEN lint
    ELSE LET entry == Head(entries)
         IN  IF ~Has(entry, "line") \/ ~Has(entry, "qualifier")
             THEN LintScan(Tail(entries), n, lint)
             ELSE IF entry.line - 1 < 0 \/ entry.line - 1 >= n
             THEN LintScan(Tail(entries), n, lint)
             ELSE IF \E k \in 1..Len(lint) : lint[k].line_num = entry.line
             THEN LintScan(Tail(entries), n, lint)
             ELSE LintScan(Tail(entries), n,
                           Append(lint, [line_num |-> entry.line,
                                         qualifier |-> entry.qualifier,
                                         bug_type_hum |-> entry.bug_type_hum]))

\* infer_report_processor.py:143
marked_info(comment_prefix, bug_type_hum, qualifier) ==
    <<" ", comment_prefix, " ", "[INFER_WARNING]", " ", bug_type_hum, ":">>
        \o qualifier \o <<"\n">>

AnnotatedLines_every(f, rep, file_content) ==
    [i \in 1..Len(file_content) |->
        rstrip(file_content[i]) \o marked_info(get_comment_syntax(f), "", <<>>)]

\* infer_report_processor.py:137-145  bug_type_hum is the loop variable of the
\* entries loop, read after that loop ended: it is the last entry's
AnnotatedLines(f, rep, file_content) ==
    LET entries == EntriesOf(rep, f)
        lint == LintScan(entries, Len(file_content), <<>>)
        bug_type_hum == entries[Len(entries)].bug_type_hum
    IN  [i \in 1..Len(file_content) |->
            IF \E k \in 1..Len(lint) : lint[k].line_num = i
            THEN LET k == CHOOSE k \in 1..Len(lint) : lint[k].line_num = i
                 IN  rstrip(file_content[i])
                         \o marked_info(get_comment_syntax(f), bug_type_hum, lint[k].qualifier)
            ELSE file_content[i]]

\* infer_report_processor.py:43-155
process_infer_report(rep, files, infer_processed) ==
    [f \in {g \in FileGroups(rep) :
               g \in DOMAIN files /\ LintScan(EntriesOf(rep, g), Len(files[g]), <<>>) # <<>>} |->
        [content |-> Join(AnnotatedLines(f, rep, files[f])),
         lintList |-> LintScan(EntriesOf(rep, f), Len(files[f]), <<>>),
         summary |-> summarize_issues(infer_processed, f)]]

-----------------------------------------------------------------------------
(* The pipeline: analyzer report -> issues -> annotated files -> prompt *)

RepairIdle ==
    /\ pc = "idle" /\ mode = "default" /\ content = <<>> /\ cpp_code = <<>>
    /\ retry_times = 0 /\ is_fixed = FALSE /\ llm_log = <<>> /\ oracle_log = <<>>
    /\ result = Pending

InitPipeline ==
    /\ RepairIdle /\ CallIdle /\ LoopIdle
    /\ fs = InitialFs
    /\ report \in Reports
    /\ stage = "analyzed"
    /\ processed_results = <<>>
    /\ modified_files = <<>>
    /\ runs = 0
    /\ prompt = <<>>

\* infer_processor.py:688-727  process_infer_output, save_processed_results
ProcessResults ==
    /\ stage = "analyzed"
    /\ processed_results' = process_results(report)
    /\ stage' = "normalized"
    /\ UNCHANGED <<fs, report, modified_files, runs, prompt, repairVars, callVars, loopVars>>

\* repair.py:396  main: process_infer_report(report_path)
ProcessInferReport ==
    /\ stage = "normalized" /\ runs < MaxRuns
    /\ modified_files' = process_infer_report(report, fs, processed_results)
    /\ runs' = runs + 1
    /\ prompt' = <<>>
    /\ UNCHANGED <<fs, report, stage, processed_results, repairVars, callVars, loopVars>>

\* config.json: absent, unreadable (no permission, not JSON), or a JSON object
Rule(t, g) == [keys |-> {"lintType", "fixPrompt"}, lintType |-> t, fixPrompt |-> g]

ConfigObject(rules) == [kind |-> "object", keys |-> {"rules"}, rules |-> rules]

load_config_raw(config_json) == config_json

\* repair.py:20-37  any exception while opening or parsing gives {"rules": []}
load_config(config_json) ==
    IF config_json.kind = "object" THEN config_json ELSE ConfigObject(<<>>)

\* repair.py:62-64  the guidance lines of one lintList entry, in rule order
RECURSIVE RuleLines(_, _)
RuleLines(bug_type_hum, config_rules) ==
    IF config_rules = <<>> THEN <<>>
    ELSE (IF Get(Head(config_rules), "lintType", "None") = bug_type_hum
          THEN << <<"- For ", bug_type_hum, " issues: ",
                    Get(Head(config_rules), "fixPrompt", "None"), "\n">> >>
          ELSE <<>>)
         \o RuleLines(bug_type_hum, Tail(config_rules))

\* repair.py:57-64  custom_fix_prompts, one element per guidance line
RECURSIVE custom_fix_prompts(_, _)
custom_fix_prompts(bug_types, config_rules) ==
    IF bug_types = <<>> THEN <<>>
    ELSE RuleLines(Head(bug_types).bug_type_hum, config_rules)
         \o custom_fix_prompts(Tail(bug_types), config_rules)

\* repair.py:68-70
custom_prompts_section(lines) ==
    IF lines # <<>> THEN <<"Custom fix guidelines:\n">> \o Join(lines) \o <<"\n\n">> ELSE <<>>

\* repair.py:75  "\n".join of "- {name}\n{filtered_output}\n" per test
RECURSIVE filtered_output_str(_)
filtered_output_str(failed_tests) ==
    IF failed_tests = <<>> THEN <<>>
    ELSE <<"- ", Head(failed_tests).name, "\n", Head(failed_tests).filtered_output, "\n">>
         \o (IF Tail(failed_tests) = <<>> THEN <<>> ELSE <<"\n">>)
         \o filtered_output_str(Tail(failed_tests))

HasFailedTests_several(failed_tests) == Len(failed_tests) > 1

\* repair.py:74  len(modified_content.get('failed_tests', [])) > 0
HasFailedTests(failed_tests) == Len(failed_tests) > 0

\* repair.py:73-81
failed_tests_section(failed_tests) ==
    IF HasFailedTests(failed_tests)
    THEN <<"\nFailed Tests:\n">> \o filtered_output_str(failed_tests)
         \o <<"\n\nPlease ensure your fixes address these test failures\n">>
    ELSE <<>>

\* dict.get on a record of the model: the value of a key the record has
GetField(rec, k, default) == IF k \in DOMAIN rec THEN rec[k] ELSE default

\* repair.py:52-117  the sections of the prompt repair_file builds
BuildPrompt(modified_content, config_json) ==
    LET bug_types == GetField(modified_content, "lintList", <<>>)
        config_rules == Get(load_config(config_json), "rules", <<>>)
        lines == custom_fix_prompts(bug_types, config_rules)
    IN  [infer_warnings_section |->
             IF bug_types # <<>> THEN <<>> ELSE <<"Each warning is marked">>,
         custom_fix_prompts |-> lines,
         custom_prompts_section |-> custom_prompts_section(lines),
         failed_tests_section |->
             failed_tests_section(GetField(modified_content, "failed_tests", <<>>)),
         code |-> modified_content.content,
         summary_section |-> GetField(modified_content, "summary", <<>>)]

\* the config.json of the pipeline runs: a rule for each of two bug types
PipelineConfig ==
    ConfigObject(<< Rule("Memory Leak", "free it"), Rule("Null Dereference", "check it") >>)

\* repair.py:232-295 with NO_REQUEST_LLM=1: repair_file builds the prompt of every
\* file and returns its annotated content (repair.py:124-126), which repair_files
\* writes over the file (repair.py:287-291)
RepairFilesNoRequest ==
    /\ runs >= 1
    /\ prompt' = [f \in DOMAIN modified_files |-> BuildPrompt(modified_files[f], PipelineConfig)]
    /\ fs' = [f \in DOMAIN fs |->
                 IF f \in DOMAIN modified_files
                 THEN ReadLines(modified_files[f].content) ELSE fs[f]]
    /\ UNCHANGED <<report, stage, processed_results, modified_files, runs, repairVars, callVars, loopVars>>

NextPipeline == ProcessResults \/ ProcessInferReport \/ RepairFilesNoRequest

SpecPipeline == InitPipeline /\ [][NextPipeline]_vars

-----------------------------------------------------------------------------
(* Claims about annotation, normalization and the summary, checked under SpecPipeline *)

MarkerCount(line) == Cardinality({k \in 1..Len(line) : line[k] = "[INFER_WARNING]"})

AnnotatedFile(f) == ReadLines(modified_files[f].content)

Annotatable(d, f) ==
    /\ Has(d, "file") /\ d.file = f /\ Has(d, "line") /\ Has(d, "qualifier")
    /\ f \in DOMAIN InitialFs /\ d.line \in 1..Len(InitialFs[f])

InLintList(f, d) ==
    \E k \in 1..Len(modified_files[f].lintList) :
        /\ modified_files[f].lintList[k].line_num = d.line
        /\ modified_files[f].lintList[k].qualifier = d.qualifier

\* C5 as stated: two diagnostics on the same (file, line) with differing qualifiers give
\* exactly one annotation on that line, and both are in the file's lintList.
C5_AsStated ==
    runs = 1 =>
        \A i, j \in 1..Len(report) :
            \A f \in DOMAIN InitialFs :
                (/\ i < j /\ Annotatable(report[i], f) /\ Annotatable(report[j], f)
                 /\ report[i].line = report[j].line
                 /\ report[i].qualifier # report[j].qualifier)
                    => /\ f \in DOMAIN modified_files
                       /\ MarkerCount(AnnotatedFile(f)[report[i].line]) = 1
                       /\ InLintList(f, report[i])
                       /\ InLintList(f, report[j])

FirstOnLine(f, L) ==
    report[SetMin({i \in 1..Len(report) : Annotatable(report[i], f) /\ report[i].line = L})]

\* C6 as stated: every annotated line carries the marker built from the bug_type_hum
\* and the qualifier of the first diagnostic that targets the line.
C6_AsStated ==
    runs = 1 =>
        \A f \in DOMAIN modified_files :
            \A L \in 1..Len(AnnotatedFile(f)) :
                MarkerCount(AnnotatedFile(f)[L]) > 0 =>
                    AnnotatedFile(f)[L] =
                        rstrip(InitialFs[f][L])
                            \o marked_info(get_comment_syntax(f),
                                           FirstOnLine(f, L).bug_type_hum,
                                           FirstOnLine(f, L).qualifier)

\* C7 as stated: a second run over the source that carries the markers of the first
\* run leaves the marker set as it was: no line holds two markers.
C7_AsStated ==
    runs >= 2 =>
        \A f \in DOMAIN modified_files :
            \A L \in 1..Len(AnnotatedFile(f)) : MarkerCount(AnnotatedFile(f)[L]) <= 1

WellFormed(d) == Has(d, "file") /\ d.file # "" /\ Has(d, "line") /\ d.line # 0

Kept == SelectSeq(report, WellFormed)

\* C8: process_results returns one Issue per raw diagnostic that has a non-empty file
\* and a non-zero line, in input order; the others are dropped.
C8_OneIssuePerWellFormed ==
    stage = "normalized" =>
        /\ Len(processed_results) = Len(Kept)
        /\ \A i \in 1..Len(Kept) :
              /\ processed_results[i].location = [file |-> Kept[i].file, line |-> Kept[i].line]
              /\ processed_results[i].description = Kept[i].qualifier
              /\ processed_results[i].issue_type = Kept[i].bug_type

C8_Witness ==
    /\ stage = "normalized" /\ Len(report) = 3
    /\ WellFormed(report[1]) /\ ~WellFormed(report[2]) /\ WellFormed(report[3])
    /\ report[1].line # report[3].line
    /\ Len(processed_results) = 2
    /\ processed_results[2].location.line = report[3].line

IssuesOf(f) == SelectSeq(processed_results, LAMBDA i : i.location.file = f)

\* C9 as stated: for a file with more than 3 Issues the summary in the repair prompt
\* has exactly 3 entries, the first 3 in emission order.
C9_AsStated ==
    \A f \in DOMAIN prompt :
        Len(IssuesOf(f)) > 3 =>
            /\ Len(prompt[f].summary_section) = 3
            /\ prompt[f].summary_section = SummarizeAll(SubSeq(IssuesOf(f), 1, 3))

\* C10 as stated: every summarized issue of the repair prompt keeps at most 2 fix
\* suggestions.
C10_AsStated ==
    \A f \in DOMAIN prompt :
        \A k \in 1..Len(prompt[f].summary_section) :
            Len(prompt[f].summary_section[k].suggestions) <= 2

-----------------------------------------------------------------------------
(* Code extraction on its own: get_code_from_result over responses with one *)
(* fenced block and responses with none                                       *)

\* what may follow the opening backticks on their line: nothing, a tag, a tag that
\* is not made of word characters only (as in c++)
Tags == { <<>>, <<"c">>, <<"c", "+">> }

\* the text a block wraps: nothing, one line, two lines, a padded line, a blank line
Bodies == { <<>>, <<"a">>, <<"a", "\n", "b">>, <<" ", "a", " ">>, <<"\n">> }

Prose == { <<>>, <<"o", "\n">> }

Epilogues == { <<>>, <<"\n", "o">> }

\* responses without three backticks in a row
PlainResults == { <<>>, <<"a">>, <<" ", "a", "\n">>, <<"a", BT, "b">>, <<"a", "\n", "b", " ">> }

\* one fenced block: the opening line, the lines of T, the closing line
OneBlock(pre, tag, T, post) ==
    pre \o Fence \o tag \o <<"\n">> \o (IF T = <<>> THEN <<>> ELSE T \o <<"\n">>)
        \o Fence \o post

BlockResults ==
    {OneBlock(pre, tag, T, post) : pre \in Prose, tag \in Tags, T \in Bodies, post \in Epilogues}

InitExtract ==
    /\ RepairIdle /\ PipeIdle /\ LoopIdle
    /\ \E r \in BlockResults \cup PlainResults :
          call = [fn |-> "get_code_from_result", result |-> r]
    /\ ret = <<>>

\* llm.py:125-143
ExtractCode ==
    /\ call.fn = "get_code_from_result" /\ ret = <<>>
    /\ ret' = <<get_code_from_result(call.result)>>
    /\ UNCHANGED <<call, repairVars, pipeVars, loopVars>>

NextExtract == ExtractCode

SpecExtract == InitExtract /\ [][NextExtract]_vars

\* C11 as stated: for a response holding exactly one fenced block (three backticks,
\* an optional language tag, a closing line of three backticks) around a text T,
\* get_code_from_result returns T trimmed, the empty T included; for a response
\* with no fenced block it returns the whole response trimmed.
C11_AsStated ==
    ret # <<>> =>
        /\ \A pre \in Prose, tag \in Tags, T \in Bodies, post \in Epilogues :
              call.result = OneBlock(pre, tag, T, post) => ret[1] = strip(T)
        /\ call.result \in PlainResults => ret[1] = strip(call.result)

-----------------------------------------------------------------------------
(* Context Locator: InferOutputProcessor._extract_code_context *)

MaxFileLen == 8

MaxReportLines == 3

context_lines == 3

Max(a, b) == IF a >= b THEN a ELSE b

Min(a, b) == IF a <= b THEN a ELSE b

\* line i of a source file: its number, trailing blanks, a newline
LineText(i) == <<ToString(i), " ", "\n">>

\* what the path resolves to: no file, a file open() fails on, a file with n lines
FileStates ==
    { [kind |-> "missing", lines |-> <<>>], [kind |-> "unreadable", lines |-> <<>>] }
        \cup { [kind |-> "readable", lines |-> [i \in 1..n |-> LineText(i)]] : n \in 1..MaxFileLen }

\* the lines the text of infer report is made of (tokens): a location line for
\* a.cpp:2, a code line, a caret line, an empty line, the closing count, a line
\* ending in "2:"
ReportLineKinds ==
    { <<"a.cpp", ":", "2">>, <<"x">>, <<"^">>, <<>>, <<"Found">>, <<"2", ":">> }

ReportTexts == UNION {[1..n -> ReportLineKinds] : n \in 0..MaxReportLines}

\* f"{file_path}:{line_number}" in line
Mentions(line, file_path, line_number) ==
    \E i \in 1..Len(line) :
        /\ i + 2 <= Len(line)
        /\ line[i] = file_path /\ line[i + 1] = ":" /\ line[i + 2] = ToString(line_number)

\* infer_processor.py:359-369  the lines after a location line, up to the first
\* empty line or line starting with Found
RECURSIVE SnippetScan(_, _, _, _, _)
SnippetScan(lines, file_path, line_number, in_snippet, snippet_lines) ==
    IF lines = <<>> THEN snippet_lines
    ELSE IF Mentions(Head(lines), file_path, line_number)
         THEN SnippetScan(Tail(lines), file_path, line_number, TRUE, snippet_lines)
         ELSE IF in_snippet
              THEN IF strip(Head(lines)) # <<>> /\ Head(Head(lines)) # "Found"
                   THEN SnippetScan(Tail(lines), file_path, line_number, TRUE,
                                    Append(snippet_lines, strip(Head(lines))))
                   ELSE snippet_lines
              ELSE SnippetScan(Tail(lines), file_path, line_number, FALSE, snippet_lines)

\* infer_processor.py:380  a caret, or the line ends with the line number and a colon
IsTargetLine(line, line_number) ==
    \/ \E i \in 1..Len(line) : line[i] = "^"
    \/ /\ Len(line) >= 2
       /\ line[Len(line) - 1] = ToString(line_number) /\ line[Len(line)] = ":"

\* infer_processor.py:378-386
RECURSIVE SnippetSplit(_, _, _, _)
SnippetSplit(snippet_lines, line_number, found_target, acc) ==
    IF snippet_lines = <<>> THEN acc
    ELSE LET line == Head(snippet_lines)
         IN  IF IsTargetLine(line, line_number)
             THEN SnippetSplit(Tail(snippet_lines), line_number, TRUE,
                               [acc EXCEPT !.target_line = line])
             ELSE IF ~found_target
             THEN SnippetSplit(Tail(snippet_lines), line_number, FALSE,
                               [acc EXCEPT !.before = Append(@, line)])
             ELSE SnippetSplit(Tail(snippet_lines), line_number, TRUE,
                               [acc EXCEPT !.after = Append(@, line)])

\* infer_processor.py:331-395
_extract_context_from_report(infer_report_text, file_path, line_number) ==
    LET snippet_lines == SnippetScan(infer_report_text, file_path, line_number, FALSE, <<>>)
    IN  SnippetSplit(snippet_lines, line_number, FALSE,
                     [full_context |-> snippet_lines, target_line |-> <<>>,
                      before |-> <<>>, after |-> <<>>])

\* infer_processor.py:195-200, 227-232
NotAccessible(why, line_number) ==
    [full_context |-> <<why>>,
     target_line |-> <<"Line ", ToString(line_number), " not accessible">>,
     before |-> <<>>, after |-> <<>>]

ReportHasTarget_always(context) == TRUE

\* infer_processor.py:192  if context["target_line"]
ReportHasTarget(context) == context.target_line # <<>>

ContextStart_wide(line_number) == Max(0, line_number - context_lines - 2)

\* infer_processor.py:205
ContextStart(line_number) == Max(0, line_number - context_lines - 1)

\* infer_processor.py:206
ContextEnd(lines, line_number) == Min(Len(lines), line_number + context_lines)

\* infer_processor.py:166-232. Python indexes lines from 0: lines[i] is lines[i + 1]
\* here, and an index past the end raises IndexError inside the try
_extract_code_context(file, infer_report_text, file_path, line_number) ==
    IF file.kind = "missing"
    THEN LET context == _extract_context_from_report(infer_report_text, file_path, line_number)
         IN  IF ReportHasTarget(context) THEN context
             ELSE NotAccessible("Could not find file", line_number)
    ELSE IF file.kind = "unreadable"
    THEN NotAccessible("Error reading file", line_number)
    ELSE LET lines == file.lines
             start == ContextStart(line_number)
             end   == ContextEnd(lines, line_number)
         IN  IF \E i \in start..(line_number - 2) : i >= Len(lines)
             THEN NotAccessible("Error reading file", line_number)
             ELSE [full_context |-> Join(SubSeq(lines, start + 1, end)),
                   target_line |-> IF line_number - 1 < Len(lines)
                                   THEN rstrip(lines[line_number]) ELSE <<>>,
                   before |-> [k \in 1..(line_number - 1 - start) |-> rstrip(lines[start + k])],
                   after |-> [k \in 1..Max(0, end - line_number) |-> rstrip(lines[line_number + k])],
                   line_range |-> [start |-> start + 1, end |-> end]]

InitContext ==
    /\ RepairIdle /\ PipeIdle /\ LoopIdle
    /\ \E file \in FileStates, text \in ReportTexts, line_number \in 1..(MaxFileLen + 2) :
          /\ file.kind = "readable" => line_number <= Len(file.lines) + 2
          /\ call = [fn |-> "_extract_code_context", file |-> file, infer_report_text |-> text,
                     file_path |-> "a.cpp", line_number |-> line_number]
    /\ ret = <<>>

ExtractCodeContext ==
    /\ call.fn = "_extract_code_context" /\ ret = <<>>
    /\ ret' = <<_extract_code_context(call.file, call.infer_report_text,
                                       call.file_path, call.line_number)>>
    /\ UNCHANGED <<call, repairVars, pipeVars, loopVars>>

NextContext == ExtractCodeContext

SpecContext == InitContext /\ [][NextContext]_vars

InRange == call.file.kind = "readable" /\ call.line_number <= Len(call.file.lines)

\* C12: for a readable file and 1 <= line <= len(file), the context has at most 3
\* lines before and at most 3 after, none before line 1, none after the last line,
\* and the requested line, stripped, as target_line; the call returns a context.
C12_ContextBounded ==
    (ret # <<>> /\ InRange) =>
        /\ Len(ret[1].before) <= 3 /\ Len(ret[1].after) <= 3
        /\ call.line_number = 1 => ret[1].before = <<>>
        /\ call.line_number = Len(call.file.lines) => ret[1].after = <<>>
        /\ ret[1].target_line = <<ToString(call.line_number)>>
        /\ Len(ret[1].before) = Min(3, call.line_number - 1)
        /\ Len(ret[1].after) = Min(3, Len(call.file.lines) - call.line_number)

C12_Witness ==
    /\ ret # <<>> /\ InRange /\ Len(call.file.lines) = 8 /\ call.line_number = 5
    /\ ret[1].before = << <<"2">>, <<"3">>, <<"4">> >>
    /\ ret[1].after = << <<"6">>, <<"7">>, <<"8">> >>

Unreadable == call.file.kind \in {"missing", "unreadable"}

Signalled ==
    /\ ret[1].target_line = <<"Line ", ToString(call.line_number), " not accessible">>
    /\ ret[1].before = <<>> /\ ret[1].after = <<>>

\* C13 as stated: when the file cannot be read the context is the "Line N not
\* accessible" signal with empty before and after, whatever the report text holds.
C13_AsStated == (ret # <<>> /\ Unreadable) => Signalled

ReportSilent ==
    \A i \in 1..Len(call.infer_report_text) :
        ~Mentions(call.infer_report_text[i], call.file_path, call.line_number)

\* C13 (amended): when the file cannot be read and no line of the analyzer's report
\* text contains file:line, the context is the "Line N not accessible" signal with
\* empty before and after.
C13_SignalWithoutSnippet == (ret # <<>> /\ Unreadable /\ ReportSilent) => Signalled

C13_Witness ==
    /\ ret # <<>> /\ call.file.kind = "missing" /\ ReportSilent /\ Signalled
    /\ call.line_number = 1
    /\ call.infer_report_text = << <<"a.cpp", ":", "2">>, <<"x">>, <<"^">> >>

-----------------------------------------------------------------------------
(* One diagnostic through the normalizer: InferOutputProcessor._process_single_issue *)

ScenarioFileLen == 20

QScenario == <<"pointer", BT, "p", BT, "originating from line", "5", "compared to null">>

StepAssigned == [keys |-> {"description"}, description |-> <<"is", "assigned">>, line |-> 0]

ScenarioDiagnostics ==
    { Diag("a.cpp", l, q, bt, "", tr) :
        l \in {0, 12, ScenarioFileLen},
        q \in {QScenario, QNull, QLeak},
        bt \in {"NULLPTR_DEREFERENCE", "NULL_DEREFERENCE", "MEMORY_LEAK"},
        tr \in {<<>>, <<StepCompared>>, <<StepAssigned>>, <<StepAssigned, StepCompared>>} }
    \cup { [d EXCEPT !.keys = AllKeys \ {"bug_trace"}, !.bug_trace = <<>>] :
              d \in {Diag("a.cpp", 12, QScenario, "NULLPTR_DEREFERENCE", "", <<>>)} }

ScenarioFile == [kind |-> "readable", lines |-> [i \in 1..ScenarioFileLen |-> LineText(i)]]

InitIssue ==
    /\ RepairIdle /\ PipeIdle /\ LoopIdle
    /\ \E d \in ScenarioDiagnostics :
          call = [fn |-> "_process_single_issue", issue |-> d, file |-> ScenarioFile]
    /\ ret = <<>>

\* infer_processor.py:81-164 with raw_results holding this diagnostic alone: the
\* processed issue (or None) and the code context it carries (line 109)
ProcessSingleIssue ==
    /\ call.fn = "_process_single_issue" /\ ret = <<>>
    /\ ret' = <<_process_single_issue(call.issue, <<call.issue>>),
                IF Malformed(call.issue) THEN <<>>
                ELSE <<_extract_code_context(call.file, <<>>, call.issue.file,
                                             call.issue.line)>> >>
    /\ UNCHANGED <<call, repairVars, pipeVars, loopVars>>

NextIssue == ProcessSingleIssue

SpecIssue == InitIssue /\ [][NextIssue]_vars

ScenarioAsStated ==
    /\ Get(call.issue, "bug_type", "UNKNOWN") = "NULLPTR_DEREFERENCE"
    /\ Get(call.issue, "qualifier", <<>>) = QScenario
    /\ Get(call.issue, "line", 0) = 12

TraceComparesToNull ==
    \E k \in 1..Len(Get(call.issue, "bug_trace", <<>>)) :
        StepComparesToNull(Get(call.issue, "bug_trace", <<>>)[k])

FirstSuggestionIsMove ==
    /\ ret[1] # <<>>
    /\ ret[1][1].analysis.fix_suggestions # <<>>
    /\ ret[1][1].analysis.fix_suggestions[1] = MoveDereference("p")

\* C14 as stated: the diagnostic {bug_type NULLPTR_DEREFERENCE, qualifier "pointer p
\* originating from line 5 ... compared to null", line 12} on a 20-line file gives an
\* Issue whose first fix suggestion is "Move the dereference inside the if
\* (p != nullptr) block instead of the else block".
C14_AsStated == (ret # <<>> /\ ScenarioAsStated) => FirstSuggestionIsMove

\* C14 (amended): the same diagnostic gives that first fix suggestion when its
\* bug_trace has a step whose description contains "compared to null".
C14_MoveFirstWithTraceStep ==
    (ret # <<>> /\ ScenarioAsStated /\ TraceComparesToNull) => FirstSuggestionIsMove

C14_Witness ==
    /\ ret # <<>> /\ ScenarioAsStated /\ TraceComparesToNull /\ FirstSuggestionIsMove
    /\ call.issue.bug_trace = <<StepAssigned, StepCompared>>
    /\ Len(ret[1][1].analysis.fix_suggestions) = 3
    /\ ret[2][1].target_line = <<"12">>

-----------------------------------------------------------------------------
(* repair_files: the loop over the files of the mapping *)

MaxFiles == 3

FilePaths == {ToString(i) \o ".cpp" : i \in 1..MaxFiles}

\* the key orders a mapping over these paths can have
Mappings ==
    {m \in UNION {[1..n -> FilePaths] : n \in 1..MaxFiles} :
        \A i, j \in 1..Len(m) : i # j => m[i] # m[j]}

\* how one call of repair_file can end: None (repair.py:135), the pre-repair content
\* (142), a validated candidate (144), or an exception nothing on the way catches:
\* the local model cannot be loaded (llm.py:95-119), the compiler cannot be started
\* (subprocess.run, repair.py:192)
RepairFileOutcomes == {"None", "content", "code", "raise_llm", "raise_oracle"}

Raises(rf) == rf \in {"raise_llm", "raise_oracle"}

InitRepairFiles ==
    /\ RepairIdle /\ PipeIdle
    /\ \E m \in Mappings :
          /\ call = [fn |-> "repair_files", modified_files |-> m]
          /\ pending = m
    /\ ret = <<>>
    /\ attempted = <<>>
    /\ fixed_files = {}
    /\ outcome = "running"

\* repair.py:250-293  one iteration: read the original (a failure is caught, 256-260),
\* repair_file (262), the diff (a failure is caught, 271-275), the write (278-291,
\* outside any try)
RepairNextFile ==
    /\ outcome = "running" /\ pending # <<>>
    /\ \E read_ok \in BOOLEAN, rf \in RepairFileOutcomes, diff_ok \in BOOLEAN, write_ok \in BOOLEAN :
          LET file_path == Head(pending)
          IN  /\ attempted' = Append(attempted, file_path)
              /\ IF Raises(rf)
                 THEN outcome' = "raised" /\ UNCHANGED <<pending, fixed_files, ret>>
                 ELSE /\ ret' = Append(ret, [file_path |-> file_path, fixed_content |-> rf])
                      /\ IF rf = "None"
                         THEN pending' = Tail(pending) /\ UNCHANGED <<outcome, fixed_files>>
                         ELSE /\ fixed_files' = fixed_files \cup {file_path}
                              /\ IF write_ok
                                 THEN pending' = Tail(pending) /\ UNCHANGED outcome
                                 ELSE outcome' = "raised" /\ UNCHANGED pending
    /\ UNCHANGED <<call, repairVars, pipeVars>>

\* repair.py:295  return fixed_files
ReturnFixedFiles ==
    /\ outcome = "running" /\ pending = <<>>
    /\ outcome' = "returned"
    /\ UNCHANGED <<call, ret, pending, attempted, fixed_files, repairVars, pipeVars>>

NextRepairFiles == RepairNextFile \/ ReturnFixedFiles

SpecRepairFiles == InitRepairFiles /\ [][NextRepairFiles]_vars

\* C15 as stated: whatever happens to one file, the run is not aborted: when
\* repair_files ends, every file of the mapping was attempted exactly once, in
\* mapping order, and the call returned.
C15_AsStated ==
    outcome \in {"returned", "raised"} =>
        (outcome = "returned" /\ attempted = call.modified_files)

-----------------------------------------------------------------------------
(* More claims about the Repair Loop Controller, checked under Spec *)

EmptyResponseAt(i) == i \in 1..Len(llm_log) /\ llm_log[i] = <<>>

\* C16 as stated: when any language-model call of a repair returns an empty response,
\* the re-prompt after an oracle rejection included, repair_file returns None and no
\* further language-model call is made.
C16_AsStated ==
    Terminated =>
        \A i \in 1..Len(llm_log) :
            EmptyResponseAt(i) => (result = NoneResult /\ Len(llm_log) = i)

\* C20 as stated: a candidate the compiler exits non-zero on is never accepted,
\* whatever the diagnostic stream holds (an empty stream included); a zero exit
\* status is treated as valid.
C20_AsStated ==
    \A j \in 1..Len(oracle_log) :
        /\ (oracle_log[j].rc # 0 /\ j = Len(oracle_log)) =>
              ~is_fixed
        /\ oracle_log[j].rc = 0 =>
              (j = Len(oracle_log) /\ pc \in {"RETURN", "done"} /\ is_fixed)

-----------------------------------------------------------------------------
(* Custom fix hints of the repair prompt, checked under SpecPipeline *)

\* the diagnostics of the report that target a line of file f, in report order
DiagnosticsOf(f) == SelectSeq(report, LAMBDA d : Annotatable(d, f))

\* C18 as stated: the prompt of a file holds one guidance line for each pair (issue
\* of the file, rule whose lintType equals the issue's type label), ordered by issue,
\* repeated when several issues match the rule, and none for an unmatched type.
C18_AsStated ==
    \A f \in DOMAIN prompt :
        prompt[f].custom_fix_prompts =
            custom_fix_prompts(DiagnosticsOf(f), PipelineConfig.rules)

-----------------------------------------------------------------------------
(* repair_file from its arguments: the prompt, then the controller *)

FailedTest(n, o) == [name |-> n, filtered_output |-> o]

TestNames == {"T.one", "T.two"}

TestOutputs == {"expected 1", "segfault"}

FailedTestLists ==
    { <<>>,
      <<FailedTest("T.one", "expected 1")>>,
      <<FailedTest("T.one", "expected 1"), FailedTest("T.two", "segfault")>>,
      <<FailedTest("T.two", "segfault"), FailedTest("T.one", "expected 1")>> }

LintEntry(l, hum) == [line_num |-> l, qualifier |-> QLeak, bug_type_hum |-> hum]

LintLists ==
    { <<>>,
      <<LintEntry(1, "Memory Leak")>>,
      <<LintEntry(1, "Memory Leak"), LintEntry(2, "Null Dereference")>>,
      <<LintEntry(1, "Memory Leak"), LintEntry(2, "Memory Leak")>>,
      <<LintEntry(1, "Unused")>> }

\* the records main hands to repair_file (repair.py:381-386, 407-413); the record
\* of a file known from the tests only has no summary
ModifiedContents ==
    { [content |-> <<"a">>, lintList |-> l, testClass |-> "T", failed_tests |-> t] :
          l \in LintLists, t \in FailedTestLists }
    \cup { [content |-> <<"a">>, lintList |-> l] : l \in LintLists }

ConfigFiles ==
    { [kind |-> "absent", keys |-> {}, rules |-> <<>>],
      [kind |-> "unreadable", keys |-> {}, rules |-> <<>>],
      [kind |-> "object", keys |-> {}, rules |-> <<>>],
      PipelineConfig,
      ConfigObject(<< Rule("Memory Leak", "free it"), Rule("Memory Leak", "use RAII") >>) }

InitPrompt ==
    /\ PipeIdle /\ LoopIdle
    /\ \E mc \in ModifiedContents, cfg \in ConfigFiles :
          /\ call = [fn |-> "repair_file", file_path |-> "a.cpp",
                     modified_content |-> mc, config_json |-> cfg]
          /\ content = mc.content
    /\ ret = <<>>
    /\ pc = "START"
    /\ mode \in {"default", "no_llm", "debug"}
    /\ cpp_code = <<>> /\ retry_times = 0 /\ is_fixed = FALSE
    /\ llm_log = <<>> /\ oracle_log = <<>> /\ result = Pending

\* repair.py:50-117  the prompt is built before anything else is looked at
BuildRepairPrompt ==
    /\ pc = "START"
    /\ prompt' = [f \in {call.file_path} |->
                      BuildPrompt(call.modified_content, call.config_json)]
    /\ pc' = "BUILT"
    /\ UNCHANGED <<callVars, mode, content, cpp_code, retry_times, is_fixed, llm_log,
                   oracle_log, result, fs, report, stage, processed_results,
                   modified_files, runs, loopVars>>

NextPrompt == BuildRepairPrompt \/ Next

SpecPrompt == InitPrompt /\ [][NextPrompt]_vars

Built == prompt # <<>>

ThePrompt == prompt[call.file_path]

TestsOf == GetField(call.modified_content, "failed_tests", <<>>)

\* the names, and the outputs, that a section shows, in the order it shows them
NamesShown(section) == SelectSeq(section, LAMBDA t : t \in TestNames)

OutputsShown(section) == SelectSeq(section, LAMBDA t : t \in TestOutputs)

\* C17: the prompt holds the failed-tests section exactly when the file has at least
\* one FailedTest, and the section then shows the name and the filtered_output of
\* every failed test, in input order, each output right after its name.
C17_FailedTestsSection ==
    Built =>
        /\ (ThePrompt.failed_tests_section # <<>>) <=> (Len(TestsOf) >= 1)
        /\ NamesShown(ThePrompt.failed_tests_section) = [i \in 1..Len(TestsOf) |-> TestsOf[i].name]
        /\ OutputsShown(ThePrompt.failed_tests_section)
              = [i \in 1..Len(TestsOf) |-> TestsOf[i].filtered_output]
        /\ \A k \in 1..Len(ThePrompt.failed_tests_section) :
              ThePrompt.failed_tests_section[k] \in TestNames =>
                  \E i \in 1..Len(TestsOf) :
                      /\ ThePrompt.failed_tests_section[k] = TestsOf[i].name
                      /\ ThePrompt.failed_tests_section[k + 2] = TestsOf[i].filtered_output

C17_Witness ==
    /\ Built /\ Len(TestsOf) = 2 /\ TestsOf[1].name = "T.two"
    /\ NamesShown(ThePrompt.failed_tests_section) = <<"T.two", "T.one">>
    /\ OutputsShown(ThePrompt.failed_tests_section) = <<"segfault", "expected 1">>

ConfigMissing == call.config_json.kind \in {"absent", "unreadable"}

\* C19: with the rule-hints source absent or unreadable, load_config gives an empty
\* rule table, the prompt has no custom-fix-guidelines section, and repair_file goes
\* on to the language-model request: it does not end before that request is made.
C19_MissingConfigIsEmptyTable ==
    ConfigMissing =>
        /\ load_config(call.config_json) = ConfigObject(<<>>)
        /\ Built => (ThePrompt.custom_fix_prompts = <<>> /\ ThePrompt.custom_prompts_section = <<>>)
        /\ (pc = "done" /\ mode = "default") => (Built /\ Len(llm_log) >= 1)
        /\ Len(llm_log) >= 1 => Built

C19_Witness ==
    /\ ConfigMissing /\ Built /\ mode = "default" /\ Len(llm_log) >= 1
    /\ call.modified_content.lintList # <<>>
    /\ ThePrompt.custom_prompts_section = <<>>
    /\ ThePrompt.code = <<"a">>

-----------------------------------------------------------------------------
(* The attempt chain of one file, checked under Spec and SpecFair *)

\* the candidates of the chain: the code extracted from each non-empty response
Candidate(i) == get_code_from_result(llm_log[i])

Validated(c) == \E j \in 1..Len(oracle_log) : oracle_log[j].code = c

\* C21 as stated: the language model is asked for at most 3 candidates per file (the
\* first request and the re-prompts), and when the loop has ended every candidate it
\* obtained was submitted to the syntax oracle.
C21_AsStated ==
    /\ Len(llm_log) <= 3
    /\ Terminated =>
          \A i \in 1..Len(llm_log) : Candidate(i) # <<>> => Validated(Candidate(i))

\* every step that can be taken is taken: the calls of repair_file return
SpecFair == Spec /\ WF_vars(Next)

\* C22: whatever the language model and the syntax oracle answer, the repair of one
\* file ends (accepted, exhausted or failed), and never after more than 3 oracle
\* invocations: no behaviour re-prompts forever.
C22_TerminatesWithinBudget ==
    /\ [](Len(oracle_log) <= 3 /\ retry_times <= 3)
    /\ <>[](pc = "done")

C22_Witness ==
    /\ Terminated /\ Len(oracle_log) = 3 /\ Len(llm_log) = 3 /\ is_fixed
    /\ result.kind = "code" /\ result.code = cpp_code

-----------------------------------------------------------------------------
(* The null-comparison suggestion, checked under SpecIssue *)

NullDereferenceFamily ==
    Get(call.issue, "bug_type", "UNKNOWN") \in {"NULL_DEREFERENCE", "NULLPTR_DEREFERENCE"}

IsMoveSuggestion(suggestion) ==
    suggestion # <<>> /\ Head(suggestion) = Head(MoveDereference("p"))

\* C23 as stated: for a diagnostic of the null-dereference family (NULL_DEREFERENCE
\* and NULLPTR_DEREFERENCE alike) with a trace step whose description contains
\* "compared to null", the suggestion to move the dereference inside the non-null
\* branch is the first fix suggestion, before every generic one.
C23_AsStated ==
    (ret # <<>> /\ ~Malformed(call.issue) /\ NullDereferenceFamily /\ TraceComparesToNull)
        => /\ ret[1][1].analysis.fix_suggestions # <<>>
           /\ IsMoveSuggestion(ret[1][1].analysis.fix_suggestions[1])

-----------------------------------------------------------------------------
(* The files reported as repaired, checked under SpecRepairFiles *)

\* the oracle accepted the text repair_file returned for file_path
AcceptedFor(file_path) ==
    \E i \in 1..Len(ret) : ret[i].file_path = file_path /\ ret[i].fixed_content = "code"

\* C24 as stated: the mapping repair_files returns holds a file only if the syntax
\* oracle accepted its final text; a file whose repair fell back to the original
\* content or failed is attempted but not counted as repaired.
C24_AsStated ==
    outcome = "returned" => \A f \in fixed_files : AcceptedFor(f)

-----------------------------------------------------------------------------
(* Trace enhancement: InferOutputProcessor._enhance_trace *)

MaxTrace == 3

Step(keys, description, line) == [keys |-> keys, description |-> description, line |-> line]

\* the steps of a raw bug_trace: with a line, without one, without a description,
\* the final "invalid access", and one that names its line in the description only
TraceSteps ==
    { Step({"description", "line"}, <<"is", "assigned">>, 2),
      StepCompared,
      Step({"line"}, <<>>, 5),
      Step({"description"}, <<"invalid access">>, 0),
      Step({"description"}, <<"on", "line", "3">>, 0) }

Traces == UNION {[1..n -> TraceSteps] : n \in 0..MaxTrace}

\* target_line of _extract_code_context(file, line, radius) with an empty report text
CodeSnippet(file, line_number, radius) ==
    IF file.kind # "readable"
    THEN NotAccessible("Could not find file", line_number).target_line
    ELSE IF \E i \in Max(0, line_number - radius - 1)..(line_number - 2) : i >= Len(file.lines)
    THEN NotAccessible("Error reading file", line_number).target_line
    ELSE IF line_number - 1 < Len(file.lines) THEN rstrip(file.lines[line_number]) ELSE <<>>

\* infer_processor.py:287  re.search(r'line (\d+)', step_desc): 0 when there is no match
RECURSIVE DescLine(_)
DescLine(desc) ==
    IF Len(desc) < 2 THEN 0
    ELSE IF desc[1] = "line" /\ desc[2] \in Numerals THEN NumVal(desc[2])
         ELSE DescLine(Tail(desc))

OriginPresent_never(bug_trace, origin_line) == FALSE

\* infer_processor.py:251  any(step.get("line") == origin_line for step in bug_trace)
OriginPresent(bug_trace, origin_line) ==
    \E k \in 1..Len(bug_trace) : Has(bug_trace[k], "line") /\ bug_trace[k].line = origin_line

\* infer_processor.py:256-262
SyntheticStep(file, origin_line) ==
    [description |-> <<"Variable is assigned null at line ", ToString(origin_line)>>,
     line |-> origin_line,
     code_snippet |-> CodeSnippet(file, origin_line, 1)]

\* infer_processor.py:270-327  one raw step that has a description
EnhancedStep(step, file, target_line) ==
    LET step_desc == step.description
        line0 == Get(step, "line", 0)
        line1 == IF line0 = 0 /\ DescLine(step_desc) # 0 THEN DescLine(step_desc) ELSE line0
        final == (\E i \in 1..Len(step_desc) : step_desc[i] = "invalid access") /\ line1 = 0
        step_line == IF final THEN target_line ELSE line1
    IN  [description |-> step_desc,
         line |-> step_line,
         code_snippet |-> IF step_line > 0 THEN CodeSnippet(file, step_line, 0) ELSE <<>>]

\* infer_processor.py:265-327
RECURSIVE EnhanceSteps(_, _, _)
EnhanceSteps(bug_trace, file, target_line) ==
    IF bug_trace = <<>> THEN <<>>
    ELSE (IF Has(Head(bug_trace), "description")
          THEN <<EnhancedStep(Head(bug_trace), file, target_line)>> ELSE <<>>)
         \o EnhanceSteps(Tail(bug_trace), file, target_line)

\* infer_processor.py:234-329  origin_line is <<>> for None
_enhance_trace(bug_trace, file, origin_line, target_line) ==
    (IF origin_line # <<>> /\ origin_line[1] # 0 /\ ~OriginPresent(bug_trace, origin_line[1])
     THEN <<SyntheticStep(file, origin_line[1])>> ELSE <<>>)
    \o EnhanceSteps(bug_trace, file, target_line)

\* infer_processor.py:115  the origin line of a qualifier as a number, <<>> for None
OriginLineOf(qualifier) ==
    IF _extract_origin_line(qualifier) = <<>> THEN <<>>
    ELSE <<NumVal(_extract_origin_line(qualifier)[1])>>

InitTrace ==
    /\ RepairIdle /\ PipeIdle /\ LoopIdle
    /\ \E q \in {QLeak, QNull, QScenario}, tr \in Traces,
          file \in {ScenarioFile, [kind |-> "missing", lines |-> <<>>]} :
          call = [fn |-> "_enhance_trace", qualifier |-> q, bug_trace |-> tr,
                  file |-> file, target_line |-> 12]
    /\ ret = <<>>

\* infer_processor.py:115-119
EnhanceTrace ==
    /\ call.fn = "_enhance_trace" /\ ret = <<>>
    /\ ret' = <<_enhance_trace(call.bug_trace, call.file, OriginLineOf(call.qualifier),
                               call.target_line)>>
    /\ UNCHANGED <<call, repairVars, pipeVars, loopVars>>

NextTrace == EnhanceTrace

SpecTrace == InitTrace /\ [][NextTrace]_vars

\* the line the qualifier says the value originates from, 0 when it names none
QualifierOrigin ==
    IF call.qualifier = QNull THEN 2 ELSE IF call.qualifier = QScenario THEN 5 ELSE 0

SomeStepAtOrigin ==
    \E k \in 1..Len(call.bug_trace) :
        "line" \in call.bug_trace[k].keys /\ call.bug_trace[k].line = QualifierOrigin

Described == SelectSeq(call.bug_trace, LAMBDA st : "description" \in st.keys)

IsSynthetic(st) == st.description # <<>> /\ Head(st.description) = "Variable is assigned null at line "

\* C25: the enhanced trace starts with a synthetic step at origin_line exactly when
\* the qualifier gave an origin_line and no raw step has that line; after it comes
\* one step per raw step that has a description, in the raw order.
C25_TraceEnhancement ==
    ret # <<>> =>
        LET synthetic == QualifierOrigin # 0 /\ ~SomeStepAtOrigin
            shift == IF synthetic THEN 1 ELSE 0
        IN  /\ Len(ret[1]) = shift + Len(Described)
            /\ synthetic => (IsSynthetic(ret[1][1]) /\ ret[1][1].line = QualifierOrigin)
            /\ \A k \in 1..Len(Described) :
                  /\ ret[1][shift + k].description = Described[k].description
                  /\ ~IsSynthetic(ret[1][shift + k])

C25_Witness ==
    /\ ret # <<>> /\ call.qualifier = QScenario /\ Len(call.bug_trace) = 3
    /\ ~SomeStepAtOrigin /\ Len(Described) = 3 /\ Len(ret[1]) = 4
    /\ IsSynthetic(ret[1][1]) /\ ret[1][1].code_snippet = <<"5">>
    /\ ret[1][2].line = 2
    /\ ret[1][4].description = <<"invalid access">> /\ ret[1][4].line = 12

-----------------------------------------------------------------------------
(* Prompt generation: CodeRepairPrompt.generate_repair_prompt *)

MaxPromptIssues == 4

\* a processed issue as generate_repair_prompt reads it: context and location
PromptIssue(i) ==
    [context |-> [before |-> <<>>, target_line |-> ToString(i), after |-> <<>>],
     location |-> [file |-> "a.cpp", line |-> i]]

\* error_info: using_enhanced_format may be absent, processed_issues may be absent
ErrorInfos ==
    { [keys |-> ks, using_enhanced_format |-> e, processed_issues |-> [i \in 1..n |-> PromptIssue(i)]] :
        ks \in SUBSET {"using_enhanced_format", "processed_issues"},
        e \in BOOLEAN, n \in 0..MaxPromptIssues }

TemplateSets == SUBSET {"repair", "repair_enhanced"}

SourceCodes == { <<"int", " ", "x", ";">>, <<"return", ";">> }

\* code_repair.py:149-158  the snippet of one issue under its file:line header
ShortSnippet(issue) ==
    <<"// From ", issue.location.file, ":", ToString(issue.location.line), "\n">>
    \o issue.context.before \o <<">>> ", issue.context.target_line>> \o issue.context.after

\* code_repair.py:159  "\n\n".join(short_code_snippets)
RECURSIVE JoinSnippets(_)
JoinSnippets(issues) ==
    IF issues = <<>> THEN <<>>
    ELSE IF Len(issues) = 1 THEN ShortSnippet(issues[1])
    ELSE ShortSnippet(issues[1]) \o <<"\n\n">> \o JoinSnippets(Tail(issues))

\* code_repair.py:143
UsingEnhancedFormat(error_info) ==
    IF "using_enhanced_format" \in error_info.keys THEN error_info.using_enhanced_format ELSE FALSE

\* code_repair.py:144
TemplateName(error_info, templates) ==
    IF UsingEnhancedFormat(error_info) /\ "repair_enhanced" \in templates
    THEN "repair_enhanced" ELSE "repair"

\* code_repair.py:147
ReducesSource(error_info) ==
    UsingEnhancedFormat(error_info) /\ "processed_issues" \in error_info.keys

\* code_repair.py:138-188  the parts the prompt is made of
generate_repair_prompt(error_info, source_code, test_results, templates) ==
    LET template_name == TemplateName(error_info, templates)
        issues == error_info.processed_issues
        shown == IF ReducesSource(error_info)
                 THEN JoinSnippets(SubSeq(issues, 1, Min(3, Len(issues))))
                 ELSE source_code
    IN  IF template_name \in templates
        THEN [template |-> template_name, source_code |-> shown,
              test_results |-> IF test_results = <<>> THEN <<"No test results available">>
                               ELSE test_results]
        ELSE [template |-> "fallback", source_code |-> shown, test_results |-> test_results]

InitGenerate ==
    /\ RepairIdle /\ PipeIdle /\ LoopIdle
    /\ \E ei \in ErrorInfos, sc \in SourceCodes, ts \in TemplateSets,
          tr \in {<<>>, <<"failed">>} :
          call = [fn |-> "generate_repair_prompt", error_info |-> ei, source_code |-> sc,
                  test_results |-> tr, templates |-> ts]
    /\ ret = <<>>

GenerateRepairPrompt ==
    /\ call.fn = "generate_repair_prompt" /\ ret = <<>>
    /\ ret' = <<generate_repair_prompt(call.error_info, call.source_code, call.test_results,
                                       call.templates)>>
    /\ UNCHANGED <<call, repairVars, pipeVars, loopVars>>

NextGenerate == GenerateRepairPrompt

SpecGenerate == InitGenerate /\ [][NextGenerate]_vars

IssueCount ==
    IF "processed_issues" \in call.error_info.keys THEN Len(call.error_info.processed_issues) ELSE 0

\* C26: the prompt carries the per-issue snippets instead of the full source only
\* when no template is available and there are more issues than the threshold; in
\* every other case it carries the full source text.
C26_AsStated ==
    ret # <<>> =>
        ((ret[1].source_code # call.source_code)
            => (ret[1].template = "fallback" /\ IssueCount > max_issues))

-----------------------------------------------------------------------------
\* C27: the prompt repair_file builds holds the sentence explaining the
\* [INFER_WARNING] end-of-line marker whenever the file's lintList is not empty,
\* and omits the sentence when the lintList is empty.
C27_AsStated ==
    Built =>
        ((ThePrompt.infer_warnings_section # <<>>)
            <=> (GetField(call.modified_content, "lintList", <<>>) # <<>>))

-----------------------------------------------------------------------------
(* main: test records, analyzer records, their merge, the repair requests *)

\* the reports of the runs of main: up to two diagnostics
MainReports == UNION {[1..n -> RawDiagnostics] : n \in 0..2}

\* repair.py:334-355  the .cpp files of the source directory and their test class
target_test_map == [f \in {g \in DOMAIN InitialFs : Suffix(g) = ".cpp"} |-> "T"]

InitMain ==
    /\ RepairIdle /\ LoopIdle
    /\ fs = InitialFs
    /\ report \in MainReports
    /\ \E t \in FailedTestLists : call = [fn |-> "main", failed_tests |-> t]
    /\ ret = <<>>
    /\ stage = "tests"
    /\ processed_results = <<>>
    /\ modified_files = <<>>
    /\ runs = 0
    /\ prompt = <<>>

\* repair.py:366-386  a record for every file whose test class has failed tests
MainTests ==
    /\ call.fn = "main" /\ stage = "tests"
    /\ modified_files' =
          [f \in {g \in DOMAIN target_test_map : call.failed_tests # <<>>} |->
              [content |-> Join(fs[f]), lintList |-> <<>>,
               testClass |-> target_test_map[f], failed_tests |-> call.failed_tests]]
    /\ stage' = "infer"
    /\ UNCHANGED <<fs, report, processed_results, runs, prompt, repairVars, callVars, loopVars>>

\* repair.py:402-413  the analyzer record of a file goes into the record main has
\* for it, or becomes the file's record
MergeRecords(test_files, infer_modified_files) ==
    [f \in DOMAIN test_files \cup DOMAIN infer_modified_files |->
        IF f \notin DOMAIN infer_modified_files THEN test_files[f]
        ELSE IF f \in DOMAIN test_files
        THEN [test_files[f] EXCEPT !.content = infer_modified_files[f].content,
                                   !.lintList = infer_modified_files[f].lintList]
        ELSE [content |-> infer_modified_files[f].content,
              lintList |-> infer_modified_files[f].lintList,
              testClass |-> "",
              failed_tests |-> <<>>,
              summary |-> infer_modified_files[f].summary]]

\* repair.py:388-413  with --use-infer --include-infer-in-prompt
MainMerge ==
    /\ call.fn = "main" /\ stage = "infer"
    /\ processed_results' = process_results(report)
    /\ modified_files' =
          MergeRecords(modified_files,
                       process_infer_report(report, fs, process_results(report)))
    /\ runs' = runs + 1
    /\ stage' = "merged"
    /\ UNCHANGED <<fs, report, prompt, repairVars, callVars, loopVars>>

\* repair.py:416  repair_files(modified_files, output_dir) under NO_REQUEST_LLM=1
MainRepair ==
    /\ call.fn = "main" /\ stage = "merged"
    /\ RepairFilesNoRequest
    /\ prompt = <<>>

NextMain == MainTests \/ MainMerge \/ MainRepair

SpecMain == InitMain /\ [][NextMain]_vars

\* the analyzer record process_infer_report made for the files of this run
InferRecords == process_infer_report(report, InitialFs, processed_results)

\* C28: for a file with failed tests and analyzer diagnostics the repair request
\* holds the annotated source, the issue summary of the file and the failed-tests
\* block.
C28_AsStated ==
    (call # <<>> /\ call.fn = "main" /\ prompt # <<>>) =>
        \A f \in DOMAIN prompt :
            (/\ call.failed_tests # <<>>
             /\ f \in DOMAIN target_test_map
             /\ f \in DOMAIN InferRecords
             /\ InferRecords[f].summary # <<>>)
            => /\ prompt[f].code = InferRecords[f].content
               /\ prompt[f].failed_tests_section # <<>>
               /\ prompt[f].summary_section = InferRecords[f].summary

-----------------------------------------------------------------------------
(* process_results on reports of one or two diagnostics of one file *)

\* the scenario diagnostics that are well formed and on one line
PairDiagnostics == {d \in ScenarioDiagnostics : d.line = 12}

PairReports == UNION {[1..n -> PairDiagnostics] : n \in 1..2}

InitReport ==
    /\ RepairIdle /\ PipeIdle /\ LoopIdle
    /\ \E rep \in PairReports : call = [fn |-> "process_results", raw_results |-> rep]
    /\ ret = <<>>

\* infer_processor.py:65-79
ProcessReport ==
    /\ call.fn = "process_results" /\ ret = <<>>
    /\ ret' = <<process_results(call.raw_results)>>
    /\ UNCHANGED <<call, repairVars, pipeVars, loopVars>>

NextReport == ProcessReport

SpecReport == InitReport /\ [][NextReport]_vars

\* C29: the Issue of a diagnostic depends on that diagnostic only: in a report with
\* other diagnostics it is the Issue the diagnostic gives in a report of its own.
C29_AsStated ==
    ret # <<>> =>
        \A k \in 1..Len(call.raw_results) :
            <<ret[1][k]>> = process_results(<<call.raw_results[k]>>)

-----------------------------------------------------------------------------
(* process_infer_report on its own: the frame of the annotation *)

MaxEntries == 3

\* diagnostics before the file, on its first and last line, after its end; on one
\* line with two qualifiers; without a line, without a qualifier; of another file
AnnotateDiagnostics ==
    { Diag("a.cpp", l, q, "MEMORY_LEAK", "Memory Leak", <<>>) :
        l \in {0, 1, 3, 4}, q \in {QLeak, QNull} }
    \cup { WithoutLine(Diag("a.cpp", 0, QNull, "NULL_DEREFERENCE", "Null Dereference", <<>>)),
           [Diag("a.cpp", 2, <<>>, "MEMORY_LEAK", "Memory Leak", <<>>)
                EXCEPT !.keys = AllKeys \ {"qualifier"}],
           Diag("b.py", 1, QNull, "NULLPTR_DEREFERENCE", "Nullptr Dereference", <<>>) }

AnnotateReports == UNION {[1..n -> AnnotateDiagnostics] : n \in 0..MaxEntries}

\* a.cpp as in InitialFs (no newline at the end), or ending in a blank and a newline
AnnotateFiles ==
    { InitialFs,
      [InitialFs EXCEPT !["a.cpp"] = << <<"x", ";", "\n">>, <<"y", " ", " ", "\n">>,
                                        <<"z", " ", "\n">> >>] }

InitAnnotate ==
    /\ RepairIdle /\ CallIdle /\ LoopIdle
    /\ fs \in AnnotateFiles
    /\ report \in AnnotateReports
    /\ stage = "annotate"
    /\ processed_results = <<>>
    /\ modified_files = <<>>
    /\ runs = 0
    /\ prompt = <<>>

\* infer_report_processor.py:43-155
Annotate ==
    /\ stage = "annotate" /\ runs = 0
    /\ processed_results' = process_results(report)
    /\ modified_files' = process_infer_report(report, fs, process_results(report))
    /\ runs' = 1
    /\ UNCHANGED <<fs, report, stage, prompt, repairVars, callVars, loopVars>>

NextAnnotate == Annotate

SpecAnnotate == InitAnnotate /\ [][NextAnnotate]_vars

\* the lines of file f that a diagnostic with a line and a qualifier targets
TargetedLines(f) ==
    { report[i].line : i \in { k \in 1..Len(report) :
          /\ "file" \in report[k].keys /\ report[k].file = f
          /\ "line" \in report[k].keys /\ "qualifier" \in report[k].keys
          /\ report[k].line \in 1..Len(fs[f]) } }

ChangedLines(f) ==
    { L \in 1..Len(fs[f]) :
          L > Len(AnnotatedFile(f)) \/ AnnotatedFile(f)[L] # fs[f][L] }

====
